---- MODULE Spec2Model ----
(***************************************************************************)
(* A model of compare_upload_Version2.py: the equality predicate           *)
(* compare_values, the table aligner / cell-diff reducer compare_sheets    *)
(* and the request handler upload_and_compare.                             *)
(*                                                                         *)
(* Text is a sequence of one-character strings.  A floating-point number   *)
(* is counted in halves (1.5 is 3), which keeps every value of the model   *)
(* a dyadic rational of small magnitude: on these IEEE double arithmetic   *)
(* is exact, so the integer arithmetic below is the code's arithmetic.     *)
(***************************************************************************)
EXTENDS Integers, Sequences, FiniteSets, TLC

VARIABLES
    mode,           \* which entry point is being exercised
    tolerance,      \* the tolerance in force (a double)
    ignore_case,    \* the ignore_case flag in force
    val_a, val_b,   \* compare_values: the two cell values
    val_res,        \* compare_values: "unset" | "equal" | "unequal"
    df_left,        \* compare_sheets: the left table
    df_right,       \* compare_sheets: the right table
    cs_out,         \* compare_sheets: what it returned, or Nothing
    pc,             \* upload_and_compare: where the handler stands
    request,        \* the request: method, files, form fields
    sheets_input,   \* upload_and_compare locals, named as in the source
    tol_input,
    left_book,
    right_book,
    sheets_to_compare,
    sheet_i,        \* position of the for loop in sheets_to_compare
    all_diffs,
    summaries,
    flashes,        \* the messages flashed so far
    response,       \* "none" | "form" | "file"
    output,         \* the workbook written, or NoOutput
    compared        \* the sheets compare_sheets was called for, in order

pureVars == <<val_a, val_b, val_res, df_left, df_right, cs_out>>

reqVars == <<pc, request, sheets_input, tol_input, left_book, right_book,
             sheets_to_compare, sheet_i, all_diffs, summaries, flashes,
             response, output, compared>>

vars == <<mode, tolerance, ignore_case, pureVars, reqVars>>

-----------------------------------------------------------------------------
(* Characters and text *)

Digits == <<"0", "1", "2", "3", "4", "5", "6", "7", "8", "9">>

UpperCase == <<"A", "B", "C", "D", "E", "F", "G", "H", "I", "J", "K", "L", "M",
               "N", "O", "P", "Q", "R", "S", "T", "U", "V", "W", "X", "Y", "Z">>

LowerCase == <<"a", "b", "c", "d", "e", "f", "g", "h", "i", "j", "k", "l", "m",
               "n", "o", "p", "q", "r", "s", "t", "u", "v", "w", "x", "y", "z">>

\* The characters of the model in ascending code point order.
Ascii == <<" ", ",", "-", ".">> \o Digits \o UpperCase \o LowerCase

Ord(c) == CHOOSE i \in 1..Len(Ascii) : Ascii[i] = c

IsDigit(c) == \E i \in 1..Len(Digits) : Digits[i] = c

DigitVal(c) == (CHOOSE i \in 1..Len(Digits) : Digits[i] = c) - 1

\* str.lower() on one character
LowerChar(c) ==
    IF \E i \in 1..Len(UpperCase) : UpperCase[i] = c
    THEN LowerCase[CHOOSE i \in 1..Len(UpperCase) : UpperCase[i] = c]
    ELSE c

\* str.lower()
Lower(s) == [i \in 1..Len(s) |-> LowerChar(s[i])]

RECURSIVE LStrip(_)
LStrip(s) == IF s # <<>> /\ Head(s) = " " THEN LStrip(Tail(s)) ELSE s

RECURSIVE RStrip(_)
RStrip(s) ==
    IF s # <<>> /\ s[Len(s)] = " " THEN RStrip(SubSeq(s, 1, Len(s) - 1)) ELSE s

\* str.strip()
Strip(s) == RStrip(LStrip(s))

\* Python's < on str: lexicographic by code point, a proper prefix first.
RECURSIVE StrLess(_, _)
StrLess(s, t) ==
    IF t = <<>> THEN FALSE
    ELSE IF s = <<>> THEN TRUE
    ELSE IF Head(s) # Head(t) THEN Ord(Head(s)) < Ord(Head(t))
    ELSE StrLess(Tail(s), Tail(t))

RECURSIVE NatStr(_)
NatStr(n) ==
    IF n < 10 THEN <<Digits[n + 1]>>
    ELSE NatStr(n \div 10) \o <<Digits[(n % 10) + 1]>>

\* str() of an integer
IntStr(n) == IF n < 0 THEN <<"-">> \o NatStr(-n) ELSE NatStr(n)

\* str() of a finite float given in halves: "2.5", "-0.5", "5.0"
FloatStr(h) ==
    LET m == IF h < 0 THEN -h ELSE h
    IN  (IF h < 0 THEN <<"-">> ELSE <<>>)
        \o NatStr(m \div 2) \o <<".">> \o (IF m % 2 = 1 THEN <<"5">> ELSE <<"0">>)

-----------------------------------------------------------------------------
(* Double-precision numbers: finite (in halves), infinite, or NaN *)

Fin(h) == [c |-> "fin", n |-> h]
PosInf == [c |-> "inf", n |-> 1]
NegInf == [c |-> "inf", n |-> -1]
DNaN   == [c |-> "nan", n |-> 0]

\* x - y
DSub(x, y) ==
    IF x.c = "nan" \/ y.c = "nan" THEN DNaN
    ELSE IF x.c = "fin" /\ y.c = "fin" THEN Fin(x.n - y.n)
    ELSE IF x.c = "inf" /\ y.c = "inf"
         THEN (IF x.n = y.n THEN DNaN ELSE x)
    ELSE IF x.c = "inf" THEN x
    ELSE [c |-> "inf", n |-> -y.n]

\* abs(x)
DAbs(x) ==
    IF x.c = "nan" THEN x
    ELSE IF x.c = "inf" THEN PosInf
    ELSE Fin(IF x.n < 0 THEN -x.n ELSE x.n)

\* x <= y; false when either side is NaN
DLeq(x, y) ==
    IF x.c = "nan" \/ y.c = "nan" THEN FALSE
    ELSE IF x.c = "fin" /\ y.c = "fin" THEN x.n <= y.n
    ELSE IF x.c = "inf" /\ y.c = "inf" THEN x.n <= y.n
    ELSE IF x.c = "inf" THEN x.n < 0
    ELSE y.n > 0

RECURSIVE NatVal(_)
NatVal(ds) ==
    IF ds = <<>> THEN 0
    ELSE 10 * NatVal(SubSeq(ds, 1, Len(ds) - 1)) + DigitVal(ds[Len(ds)])

AllDigits(s) == \A i \in 1..Len(s) : IsDigit(s[i])

AllZeros(s) == \A i \in 1..Len(s) : s[i] = "0"

\* float(s) on a string: surrounding whitespace is dropped, then a sign, then
\* "inf", "nan" or a decimal numeral.  ok is FALSE where float raises
\* ValueError.  A numeral with a fraction other than .0 or .5 is no half
\* and is answered like a ValueError; no input of the model is one.
ParseFloat(s0) ==
    LET s    == Strip(s0)
        neg  == s # <<>> /\ Head(s) = "-"
        body == IF neg THEN Tail(s) ELSE s
        low  == Lower(body)
        dots == {i \in 1..Len(body) : body[i] = "."}
        dot  == IF dots = {} THEN Len(body) + 1
                ELSE CHOOSE i \in dots : \A k \in dots : i <= k
        ip   == SubSeq(body, 1, dot - 1)
        fp   == SubSeq(body, dot + 1, Len(body))
        half == IF AllZeros(fp) THEN 0 ELSE 1
        mag  == 2 * NatVal(ip) + half
    IN  IF low = <<"i", "n", "f">>
        THEN [ok |-> TRUE, d |-> (IF neg THEN NegInf ELSE PosInf)]
        ELSE IF low = <<"n", "a", "n">>
        THEN [ok |-> TRUE, d |-> DNaN]
        ELSE IF /\ AllDigits(ip) /\ AllDigits(fp) /\ Len(ip) + Len(fp) >= 1
                /\ (AllZeros(fp) \/ (Head(fp) = "5" /\ AllZeros(Tail(fp))))
        THEN [ok |-> TRUE, d |-> Fin(IF neg THEN -mag ELSE mag)]
        ELSE [ok |-> FALSE, d |-> DNaN]

-----------------------------------------------------------------------------
(* Cell values.  host is "np" for a numpy scalar (a cell of a column with  *)
(* a numeric or bool dtype) and "py" for a Python object (a cell of an     *)
(* object column).                                                         *)

NoneVal           == [kind |-> "none",  host |-> "py", n |-> 0, s |-> <<>>]
NaNVal(host)      == [kind |-> "null",  host |-> host, n |-> 0, s |-> <<>>]
BoolVal(host, b)  == [kind |-> "bool",  host |-> host, n |-> b, s |-> <<>>]
IntVal(host, n)   == [kind |-> "int",   host |-> host, n |-> n, s |-> <<>>]
FloatVal(host, h) == [kind |-> "float", host |-> host, n |-> h, s |-> <<>>]
InfVal(host, sg)  == [kind |-> "inf",   host |-> host, n |-> sg, s |-> <<>>]
TextVal(s)        == [kind |-> "text",  host |-> "py", n |-> 0, s |-> s]

\* pd.isna(x)
IsNa(x) == x.kind \in {"none", "null"}

\* float(x), for the values is_number accepts
ToFloat(x) ==
    CASE x.kind \in {"bool", "int"} -> Fin(2 * x.n)
      [] x.kind = "float" -> Fin(x.n)
      [] x.kind = "inf" -> [c |-> "inf", n |-> x.n]
      [] OTHER -> DNaN

\* str(x)
Str(x) ==
    CASE x.kind = "text" -> x.s
      [] x.kind = "int" -> IntStr(x.n)
      [] x.kind = "float" -> FloatStr(x.n)
      [] x.kind = "bool" ->
            (IF x.n = 1 THEN <<"T", "r", "u", "e">> ELSE <<"F", "a", "l", "s", "e">>)
      [] x.kind = "inf" ->
            (IF x.n < 0 THEN <<"-">> ELSE <<>>) \o <<"i", "n", "f">>
      [] x.kind = "null" -> <<"n", "a", "n">>
      [] OTHER -> <<"N", "o", "n", "e">>

\* is_number(x).  isinstance never raises, so the except branch is dead: a
\* text is never a number, whatever it reads as.
is_number(x) ==
    IF x.host = "np" /\ x.kind \in {"int", "float", "inf", "null"}
    THEN x.kind \in {"int", "float"}
    ELSE x.host = "py" /\ x.kind \in {"bool", "int", "float", "inf", "null"}

\* The text branch of compare_values
TextEqual(a, b, ic) ==
    LET sa == IF IsNa(a) THEN <<>> ELSE Str(a)
        sb == IF IsNa(b) THEN <<>> ELSE Str(b)
    IN  IF ic
        THEN Lower(Strip(sa)) = Lower(Strip(sb))
        ELSE Strip(sa) = Strip(sb)

\* compare_values with a strict tolerance test
compare_values_strict(a, b, tol, ic) ==
    IF IsNa(a) /\ IsNa(b) THEN TRUE
    ELSE IF is_number(a) /\ is_number(b)
    THEN LET d == DAbs(DSub(ToFloat(a), ToFloat(b)))
         IN  DLeq(d, tol) /\ d # tol
    ELSE TextEqual(a, b, ic)

\* compare_values(a, b, tol, ic)
compare_values(a, b, tol, ic) ==
    IF a.kind = "none" /\ b.kind = "none" THEN TRUE
    ELSE IF IsNa(a) /\ IsNa(b) THEN TRUE
    ELSE IF is_number(a) /\ is_number(b)
    THEN DLeq(DAbs(DSub(ToFloat(a), ToFloat(b))), tol)
    ELSE TextEqual(a, b, ic)

-----------------------------------------------------------------------------
(* Bounds and input domains *)

\* Integers range over -1..MaxNum and floats over -1.0..MaxNum in halves.
MaxNum == 6

Hosts == {"py", "np"}

SampleTexts ==
    { <<>>, <<"5">>, <<"5", ".", "0">>, <<" ", "5">>, <<"6">>,
      <<"F", "o", "o", " ">>, <<"f", "o", "o">>, <<"T", "r", "u", "e">>,
      <<"i", "n", "f">> }

Values ==
    {NoneVal}
    \cup {NaNVal(h) : h \in Hosts}
    \cup {BoolVal(h, b) : h \in Hosts, b \in {0, 1}}
    \cup {IntVal(h, n) : h \in Hosts, n \in (-1)..MaxNum}
    \cup {FloatVal(h, q) : h \in Hosts, q \in (-2)..(2 * MaxNum)}
    \cup {InfVal(h, sg) : h \in Hosts, sg \in {-1, 1}}
    \cup {TextVal(s) : s \in SampleTexts}

Tolerances ==
    {Fin(q) : q \in (-1)..(2 * MaxNum)} \cup {PosInf, DNaN}


-----------------------------------------------------------------------------
(* Tables (DataFrames), stored by column.  index holds the row labels,     *)
(* dtypes the dtype of each column: "int64", "float64" or "object".        *)

RangeIndex(n) == [i \in 1..n |-> i - 1]

\* len(df)
Rows(df) == Len(df.index)

\* len(df.columns)
Cols(df) == Len(df.columns)

\* normalize_dataframe(df): every column label becomes its str(), the index
\* is reset to 0..len-1.
normalize_dataframe(df) ==
    [df EXCEPT !.columns = [j \in 1..Len(df.columns) |-> TextVal(Str(df.columns[j]))],
               !.index = RangeIndex(Len(df.index))]

\* set(df.columns), the labels being Python strings after normalisation
ColumnSet(df) == {Str(df.columns[j]) : j \in 1..Len(df.columns)}

\* sorted(S, key=str) on a set of strings
RECURSIVE SortedStrings(_)
SortedStrings(S) ==
    IF S = {} THEN <<>>
    ELSE LET least == CHOOSE s \in S : \A t \in S \ {s} : StrLess(s, t)
         IN  <<least>> \o SortedStrings(S \ {least})

\* all_columns = list(sorted(set(left.columns).union(set(right.columns)), key=str))
all_columns(l, r) == SortedStrings(ColumnSet(l) \cup ColumnSet(r))

\* the row count of the shorter table
max_rows_min(l, r) == IF Rows(l) <= Rows(r) THEN Rows(l) ELSE Rows(r)

\* max_rows = max(len(df_left), len(df_right))
max_rows(l, r) == IF Rows(l) >= Rows(r) THEN Rows(l) ELSE Rows(r)

\* df.reindex(columns=cols, fill_value=np.nan): a column the table lacks is
\* a new float64 column of NaN.
ReindexColumns(df, cols) ==
    LET Has(c) == \E k \in 1..Len(df.columns) : Str(df.columns[k]) = c
        Pos(c) == CHOOSE k \in 1..Len(df.columns) : Str(df.columns[k]) = c
    IN  [ columns |-> [j \in 1..Len(cols) |-> TextVal(cols[j])],
          index   |-> df.index,
          dtypes  |-> [j \in 1..Len(cols) |->
                          IF Has(cols[j]) THEN df.dtypes[Pos(cols[j])] ELSE "float64"],
          data    |-> [j \in 1..Len(cols) |->
                          IF Has(cols[j]) THEN df.data[Pos(cols[j])]
                          ELSE [i \in 1..Len(df.index) |-> NaNVal("np")]] ]

\* The dtype a column takes when NaN has to be stored in it
PromotedDtype(dt) == IF dt = "int64" THEN "float64" ELSE dt

\* A cell of a column of dtype dt once the column is promoted
PromotedCell(dt, x) == IF dt = "int64" THEN FloatVal("np", 2 * x.n) ELSE x

\* np.nan as stored in a column of dtype dt
FillValue(dt) == IF dt = "object" THEN NaNVal("py") ELSE NaNVal("np")

\* df.reindex(range(n), fill_value=np.nan): row label r keeps its cells, a
\* label the table lacks gets NaN and promotes the column's dtype.
ReindexRows(df, n) ==
    LET Has(r) == \E i \in 1..Len(df.index) : df.index[i] = r
        Pos(r) == CHOOSE i \in 1..Len(df.index) : df.index[i] = r
        missing == \E r \in 0..(n - 1) : ~Has(r)
        NewDtype(j) == IF missing THEN PromotedDtype(df.dtypes[j]) ELSE df.dtypes[j]
    IN  [ columns |-> df.columns,
          index   |-> RangeIndex(n),
          dtypes  |-> [j \in 1..Len(df.columns) |-> NewDtype(j)],
          data    |-> [j \in 1..Len(df.columns) |->
                         [i \in 1..n |->
                            IF Has(i - 1)
                            THEN (IF missing
                                  THEN PromotedCell(df.dtypes[j], df.data[j][Pos(i - 1)])
                                  ELSE df.data[j][Pos(i - 1)])
                            ELSE FillValue(NewDtype(j))]] ]

\* c in df.columns
HasColumn(df, c) == \E j \in 1..Len(df.columns) : Str(df.columns[j]) = c

\* df.at[r, c] if c in df.columns else np.nan
At(df, r, c) ==
    IF HasColumn(df, c)
    THEN LET j == CHOOSE k \in 1..Len(df.columns) : Str(df.columns[k]) = c
             i == CHOOSE k \in 1..Len(df.index) : df.index[k] = r
         IN  df.data[j][i]
    ELSE NaNVal("py")

\* the record appended for an unequal cell pair, with excel_row = row_index
DiffRecordSameRow(sheet_name, r, c, a, b) ==
    [ sheet |-> sheet_name, row_index |-> r, excel_row |-> r, column |-> c,
      left_value |-> a, right_value |-> b ]

\* the record appended for an unequal cell pair
DiffRecord(sheet_name, r, c, a, b) ==
    [ sheet |-> sheet_name, row_index |-> r, excel_row |-> r + 1, column |-> c,
      left_value |-> a, right_value |-> b ]

\* for c in all_columns: ... , from the j-th column on, within row r
RECURSIVE ColumnLoop(_, _, _, _, _, _, _, _)
ColumnLoop(l, r, cols, sheet_name, tol, ic, row, j) ==
    IF j > Len(cols) THEN <<>>
    ELSE LET a == At(l, row, cols[j])
             b == At(r, row, cols[j])
         IN  (IF ~compare_values(a, b, tol, ic)
              THEN <<DiffRecord(sheet_name, row, cols[j], a, b)>>
              ELSE <<>>)
             \o ColumnLoop(l, r, cols, sheet_name, tol, ic, row, j + 1)

\* for r in range(max_rows): ... , from row `row` on
RECURSIVE RowLoop(_, _, _, _, _, _, _, _)
RowLoop(l, r, cols, n, sheet_name, tol, ic, row) ==
    IF row >= n THEN <<>>
    ELSE ColumnLoop(l, r, cols, sheet_name, tol, ic, row, 1)
         \o RowLoop(l, r, cols, n, sheet_name, tol, ic, row + 1)

\* Lines 125-135 of compare_sheets: both tables normalised, then reindexed
\* to all_columns and to range(max_rows).
Align(left, right) ==
    LET l0   == normalize_dataframe(left)
        r0   == normalize_dataframe(right)
        cols == all_columns(l0, r0)
        n    == max_rows(l0, r0)
    IN  [ all_columns |-> cols,
          max_rows    |-> n,
          df_left     |-> ReindexRows(ReindexColumns(l0, cols), n),
          df_right    |-> ReindexRows(ReindexColumns(r0, cols), n) ]

\* compare_sheets(df_left, df_right, sheet_name, tol, ignore_case): what it
\* returns (diffs, summary) and its locals when it returns (aligned).
compare_sheets(left, right, sheet_name, tol, ic) ==
    LET al == Align(left, right)
        ds == RowLoop(al.df_left, al.df_right, al.all_columns, al.max_rows,
                      sheet_name, tol, ic, 0)
    IN  [ diffs   |-> ds,
          summary |-> [ sheet |-> sheet_name,
                        left_rows |-> Rows(left), right_rows |-> Rows(right),
                        left_cols |-> Cols(left), right_cols |-> Cols(right),
                        diff_count |-> Len(ds) ],
          aligned |-> al ]

-----------------------------------------------------------------------------
(* Input tables *)

\* A table has at most MaxCells cells, and at most MaxCells rows.
MaxCells == 2

\* Column labels as a workbook reader gives them: text, or a number.
Labels == {TextVal(<<"B">>), IntVal("py", 10), IntVal("py", 2)}

ColumnLists ==
    {<<>>} \cup {<<c>> : c \in Labels}
    \cup {<<p[1], p[2]>> : p \in {q \in Labels \X Labels : q[1] # q[2]}}

Int64Cells == {IntVal("np", 1), IntVal("np", 2)}

Float64Cells == {InfVal("np", 1)}

ObjectCells == {TextVal(<<"1">>), InfVal("py", 1)}

\* The dtype of a column read from a workbook: a column of numbers is a
\* numpy column, a column holding a text is an object column.
DtypeOf(cells) ==
    IF cells # <<>> /\ \A i \in 1..Len(cells) : cells[i] \in Int64Cells THEN "int64"
    ELSE IF cells # <<>> /\ \A i \in 1..Len(cells) : cells[i] \in Float64Cells THEN "float64"
    ELSE "object"

ColumnsOfLen(n) ==
    [1..n -> Int64Cells] \cup [1..n -> Float64Cells]
    \cup {cells \in [1..n -> ObjectCells] :
             n = 0 \/ \E i \in 1..n : cells[i].kind = "text"}

Tables ==
    UNION { UNION { { [ columns |-> cols,
                        index   |-> RangeIndex(n),
                        dtypes  |-> [j \in 1..Len(cols) |-> DtypeOf(d[j])],
                        data    |-> d ]
                      : d \in [1..Len(cols) -> ColumnsOfLen(n)] }
                    : n \in {m \in 0..MaxCells : m * Len(cols) <= MaxCells} }
            : cols \in ColumnLists }

SheetTolerances == {Fin(0), Fin(2)}

SampleSheet == <<"S", "1">>

Nothing == [diffs |-> <<>>, summary |-> [none |-> TRUE], aligned |-> [none |-> TRUE]]

NoTable == [columns |-> <<>>, index |-> <<>>, dtypes |-> <<>>, data |-> <<>>]

-----------------------------------------------------------------------------
(* The request handler's state before a request arrives *)

Absent == [present |-> FALSE, v |-> <<>>]

Field(v) == [present |-> TRUE, v |-> v]

NoRequest ==
    [ method |-> "none", left |-> FALSE, right |-> FALSE,
      sheets |-> Absent, ignore_case |-> Absent, tolerance |-> Absent ]

NoBook == [state |-> "unread", sheets |-> <<>>]

Unreadable == [state |-> "unreadable", sheets |-> <<>>]

NoOutput == [written |-> FALSE, differences |-> <<>>, summary |-> <<>>]

ReqIdle ==
    /\ pc = "idle"
    /\ request = NoRequest
    /\ sheets_input = <<>>
    /\ tol_input = <<>>
    /\ left_book = NoBook
    /\ right_book = NoBook
    /\ sheets_to_compare = <<>>
    /\ sheet_i = 0
    /\ all_diffs = <<>>
    /\ summaries = <<>>
    /\ flashes = <<>>
    /\ response = "none"
    /\ output = NoOutput
    /\ compared = <<>>

-----------------------------------------------------------------------------
(* compare_values as a pure function *)

InitValues ==
    /\ mode = "values"
    /\ val_a \in Values
    /\ val_b \in Values
    /\ tolerance \in Tolerances
    /\ ignore_case \in BOOLEAN
    /\ val_res = "unset"
    /\ df_left = NoTable
    /\ df_right = NoTable
    /\ cs_out = Nothing
    /\ ReqIdle

CompareValues ==
    /\ mode = "values"
    /\ val_res = "unset"
    /\ val_res' = IF compare_values(val_a, val_b, tolerance, ignore_case)
                  THEN "equal" ELSE "unequal"
    /\ UNCHANGED <<mode, tolerance, ignore_case, val_a, val_b, df_left, df_right, cs_out>>
    /\ UNCHANGED reqVars

NextValues == CompareValues

SpecValues == InitValues /\ [][NextValues]_vars

-----------------------------------------------------------------------------
(* compare_sheets as a pure function *)

InitSheets ==
    /\ mode = "sheets"
    /\ df_left \in Tables
    /\ df_right \in Tables
    /\ tolerance \in SheetTolerances
    /\ ignore_case \in BOOLEAN
    /\ cs_out = Nothing
    /\ val_a = NoneVal
    /\ val_b = NoneVal
    /\ val_res = "unset"
    /\ ReqIdle

CompareSheets ==
    /\ mode = "sheets"
    /\ cs_out = Nothing
    /\ cs_out' = compare_sheets(df_left, df_right, SampleSheet, tolerance, ignore_case)
    /\ UNCHANGED <<mode, tolerance, ignore_case, val_a, val_b, val_res, df_left, df_right>>
    /\ UNCHANGED reqVars

NextSheets == CompareSheets

SpecSheets == InitSheets /\ [][NextSheets]_vars

-----------------------------------------------------------------------------
(* Properties of compare_sheets *)

SheetsDone == mode = "sheets" /\ cs_out # Nothing

\* The records of ds at coordinate (r, c)
RecordsAt(ds, r, c) ==
    {k \in 1..Len(ds) : ds[k].row_index = r /\ ds[k].column = c}

\* C1: compare_sheets emits exactly one DiffRecord for every coordinate of
\* the aligned space whose two values compare_values judges unequal and
\* none for a coordinate judged equal; every record has excel_row =
\* row_index + 1; the summary's diff_count is the number of records.
C1_DiffsMatchPredicate ==
    SheetsDone =>
        LET al == cs_out.aligned
            ds == cs_out.diffs
        IN  /\ \A r \in 0..(al.max_rows - 1) :
                  \A j \in 1..Len(al.all_columns) :
                      LET c == al.all_columns[j]
                          equal == compare_values(At(al.df_left, r, c),
                                                  At(al.df_right, r, c),
                                                  tolerance, ignore_case)
                      IN  Cardinality(RecordsAt(ds, r, c)) = IF equal THEN 0 ELSE 1
            /\ \A k \in 1..Len(ds) :
                  /\ ds[k].excel_row = ds[k].row_index + 1
                  /\ ds[k].row_index \in 0..(al.max_rows - 1)
                  /\ \E j \in 1..Len(al.all_columns) : al.all_columns[j] = ds[k].column
                  /\ ds[k].left_value = At(al.df_left, ds[k].row_index, ds[k].column)
                  /\ ds[k].right_value = At(al.df_right, ds[k].row_index, ds[k].column)
                  /\ ds[k].sheet = cs_out.summary.sheet
            /\ cs_out.summary.diff_count = Len(ds)

\* C1 witness: a comparison that found a coordinate unequal and another equal
C1_Witness ==
    /\ SheetsDone
    /\ Len(cs_out.diffs) >= 1
    /\ Len(cs_out.diffs) < cs_out.aligned.max_rows * Len(cs_out.aligned.all_columns)

\* C2: comparing a table against itself yields no DiffRecord and
\* diff_count 0, for every tolerance >= 0 and either ignore_case setting.
C2_Reflexive ==
    (SheetsDone /\ df_left = df_right /\ DLeq(Fin(0), tolerance))
        => (cs_out.diffs = <<>> /\ cs_out.summary.diff_count = 0)

\* The labels of a table as the strings str() gives
LabelStrings(df) == {Str(df.columns[j]) : j \in 1..Len(df.columns)}

\* A side of the aligned pair has the aligned shape, and is null wherever
\* the original table has no cell.
AlignedSideOk(al, side, orig) ==
    /\ side.index = RangeIndex(al.max_rows)
    /\ side.columns = [j \in 1..Len(al.all_columns) |-> TextVal(al.all_columns[j])]
    /\ \A r \in 0..(al.max_rows - 1) :
          \A j \in 1..Len(al.all_columns) :
              (r >= Rows(orig) \/ al.all_columns[j] \notin LabelStrings(orig))
                  => IsNa(At(side, r, al.all_columns[j]))

\* C10: compare_sheets aligns the two tables to max(left rows, right rows)
\* rows and to the union of both column sets in ascending string order;
\* a cell beyond a table's rows or in a column the table lacks reads as
\* null; the summary carries the original row and column counts.
C10_Alignment ==
    SheetsDone =>
        LET al == cs_out.aligned
            cols == al.all_columns
        IN  /\ al.max_rows >= Rows(df_left) /\ al.max_rows >= Rows(df_right)
            /\ al.max_rows \in {Rows(df_left), Rows(df_right)}
            /\ {cols[j] : j \in 1..Len(cols)} = LabelStrings(df_left) \cup LabelStrings(df_right)
            /\ \A j \in 1..(Len(cols) - 1) : StrLess(cols[j], cols[j + 1])
            /\ AlignedSideOk(al, al.df_left, df_left)
            /\ AlignedSideOk(al, al.df_right, df_right)
            /\ cs_out.summary.left_rows = Len(df_left.index)
            /\ cs_out.summary.right_rows = Len(df_right.index)
            /\ cs_out.summary.left_cols = Len(df_left.columns)
            /\ cs_out.summary.right_cols = Len(df_right.columns)

\* C10 witness: tables of different heights, the left one with two columns
\* out of string order, the right one with a column the left lacks
C10_Witness ==
    /\ SheetsDone
    /\ Rows(df_left) < Rows(df_right)
    /\ Len(df_left.columns) = 2
    /\ StrLess(Str(df_left.columns[2]), Str(df_left.columns[1]))
    /\ LabelStrings(df_right) \cap LabelStrings(df_left) = {}
    /\ Len(cs_out.aligned.all_columns) = 3
    /\ cs_out.aligned.max_rows = 2

-----------------------------------------------------------------------------
(* Properties of compare_values *)

ValuesDone == mode = "values" /\ val_res # "unset"

\* An integer, a finite float, or a text that reads as a finite number
NumericLooking(x) ==
    \/ x.kind \in {"int", "float"}
    \/ x.kind = "text" /\ ParseFloat(x.s).ok /\ ParseFloat(x.s).d.c = "fin"

\* The number a numeric-looking value stands for, in halves
NumberOf(x) == IF x.kind = "text" THEN ParseFloat(x.s).d.n ELSE ToFloat(x).n

Distance(x, y) == IF x >= y THEN x - y ELSE y - x

\* |x - y| <= tol for a tolerance that is not NaN
Within(x, y, tol) == tol.c = "inf" \/ Distance(x, y) <= tol.n

NonNegative(tol) == (tol.c = "fin" /\ tol.n >= 0) \/ (tol.c = "inf" /\ tol.n > 0)

\* C3: when both values are numeric or numeric-looking (an integer, a float
\* or a text that reads as a number), compare_values judges them equal
\* exactly when the numbers they stand for differ by at most the tolerance.
C3_NumericFirst ==
    (ValuesDone /\ NumericLooking(val_a) /\ NumericLooking(val_b) /\ NonNegative(tolerance))
        => (val_res = "equal" <=> Within(NumberOf(val_a), NumberOf(val_b), tolerance))

-----------------------------------------------------------------------------
(* upload_and_compare *)

MsgTolerance == "Invalid tolerance value; using 0.0"
MsgFiles     == "Both files are required."
MsgRead      == "Failed to read uploaded Excel files"
MsgSheets    == "No requested sheets found in either file."

\* request.form.get(name) or default
GetOr(field, default) ==
    IF field.present /\ field.v # <<>> THEN field.v ELSE default

\* s.split(",")
RECURSIVE Split(_)
Split(s) ==
    LET commas == {i \in 1..Len(s) : s[i] = ","}
    IN  IF commas = {} THEN <<s>>
        ELSE LET k == CHOOSE i \in commas : \A j \in commas : i <= j
             IN  <<SubSeq(s, 1, k - 1)>> \o Split(SubSeq(s, k + 1, Len(s)))

\* requested = [s.strip() for s in sheets_input.split(",") if s.strip()]
Requested(input) ==
    LET parts == Split(input)
        stripped == [i \in 1..Len(parts) |-> Strip(parts[i])]
    IN  SelectSeq(stripped, LAMBDA s : s # <<>>)

\* set(book.keys())
SheetsOf(book) == DOMAIN book.sheets

\* the selection without the presence filter
SelectSheetsNoFilter(input, left_sheets, right_sheets) ==
    IF input # <<>> THEN Requested(input)
    ELSE SortedStrings(left_sheets \cup right_sheets)

\* Lines 187-194: the requested names found in either workbook, in the order
\* requested; without a request, the sorted union of the sheet names.
SelectSheets(input, left_sheets, right_sheets) ==
    IF input # <<>>
    THEN SelectSeq(Requested(input),
                   LAMBDA s : s \in left_sheets \/ s \in right_sheets)
    ELSE SortedStrings(left_sheets \cup right_sheets)

\* the empty-selection test left out
SelectionAbortsNever(input, selected) == FALSE

\* Lines 187-192: an explicit request that selects nothing ends the request.
SelectionAborts(input, selected) == input # <<>> /\ selected = <<>>

\* Lines 163-167: float(tol_input), or 0.0 with a warning on ValueError
ParseTolerance(input) ==
    LET parsed == IF input # <<>> THEN ParseFloat(input) ELSE [ok |-> TRUE, d |-> Fin(0)]
    IN  IF parsed.ok THEN [tolerance |-> parsed.d, warnings |-> <<>>]
        ELSE [tolerance |-> Fin(0), warnings |-> <<MsgTolerance>>]

\* the loop body with the two notes exchanged
ProcessOneSwapped(sheet, lbook, rbook, tol, ic) ==
    IF sheet \notin SheetsOf(lbook)
    THEN [diffs |-> <<>>, summary |-> [sheet |-> sheet, note |-> "only_in_left"],
          compared |-> <<>>]
    ELSE IF sheet \notin SheetsOf(rbook)
    THEN [diffs |-> <<>>, summary |-> [sheet |-> sheet, note |-> "only_in_right"],
          compared |-> <<>>]
    ELSE LET res == compare_sheets(lbook.sheets[sheet], rbook.sheets[sheet], sheet, tol, ic)
         IN  [diffs |-> res.diffs, summary |-> res.summary, compared |-> <<sheet>>]

\* Lines 200-211, the body of the loop over sheets_to_compare: what one
\* sheet adds to all_diffs and to summaries.
ProcessOne(sheet, lbook, rbook, tol, ic) ==
    IF sheet \notin SheetsOf(lbook)
    THEN [diffs |-> <<>>, summary |-> [sheet |-> sheet, note |-> "only_in_right"],
          compared |-> <<>>]
    ELSE IF sheet \notin SheetsOf(rbook)
    THEN [diffs |-> <<>>, summary |-> [sheet |-> sheet, note |-> "only_in_left"],
          compared |-> <<>>]
    ELSE LET res == compare_sheets(lbook.sheets[sheet], rbook.sheets[sheet], sheet, tol, ic)
         IN  [diffs |-> res.diffs, summary |-> res.summary, compared |-> <<sheet>>]

\* the sheet's records put in front of those already collected
ExtendInFront(all, ds) == ds \o all

\* all_diffs.extend(diffs)
Extend(all, ds) == all \o ds

\* Lines 216-223: the "differences" sheet holds the records, or one
\* placeholder row when there are none; the "summary" sheet the summaries.
WriteWorkbook(diffs, sums) ==
    [ written     |-> TRUE,
      differences |-> IF diffs # <<>> THEN diffs
                      ELSE <<[note |-> "no differences found"]>>,
      summary     |-> sums ]

-----------------------------------------------------------------------------
(* Requests *)

SheetNames == {<<"A">>, <<"B">>, <<"a">>}

Int64Column(v, n) == [i \in 1..n |-> IntVal("np", v)]

TableP ==
    [ columns |-> <<TextVal(<<"B">>), IntVal("py", 2)>>, index |-> RangeIndex(2),
      dtypes |-> <<"int64", "int64">>,
      data |-> <<Int64Column(1, 2), Int64Column(1, 2)>> ]

TableQ ==
    [ columns |-> <<IntVal("py", 2), TextVal(<<"B">>)>>, index |-> RangeIndex(2),
      dtypes |-> <<"int64", "int64">>,
      data |-> <<Int64Column(2, 2), Int64Column(2, 2)>> ]

TableUpper ==
    [ columns |-> <<TextVal(<<"B">>)>>, index |-> RangeIndex(1),
      dtypes |-> <<"object">>, data |-> <<<<TextVal(<<"X">>)>>>> ]

TableLower ==
    [ columns |-> <<TextVal(<<"B">>)>>, index |-> RangeIndex(1),
      dtypes |-> <<"object">>, data |-> <<<<TextVal(<<"x">>)>>>> ]

LeftTables == {TableP, TableUpper}

RightTables == {TableQ, TableLower}

\* A workbook has at least one sheet.
Workbooks(tables) ==
    UNION { { [state |-> "ok", sheets |-> f] : f \in [S -> tables] }
            : S \in (SUBSET SheetNames) \ {{}} }

FileContents(tables) == {Unreadable} \cup Workbooks(tables)

SheetsFields ==
    { Absent,
      Field(<<" ", " ">>),
      Field(<<"B", ",", "A">>),
      Field(<<" ", "a", " ", ",", " ", "A", ",", "Z">>),
      Field(<<"Z">>),
      Field(<<"A", ",", ",", "A">>),
      Field(<<",">>) }

ToleranceFields ==
    { Absent,
      Field(<<>>),
      Field(<<" ">>),
      Field(<<" ", "1", " ">>),
      Field(<<"-", "1">>),
      Field(<<"a", "b", "c">>),
      Field(<<"n", "a", "n">>) }

IgnoreCaseFields == {Absent, Field(<<"o", "n">>)}

InitRequest ==
    /\ mode = "request"
    /\ tolerance = Fin(0)
    /\ ignore_case = FALSE
    /\ val_a = NoneVal
    /\ val_b = NoneVal
    /\ val_res = "unset"
    /\ df_left = NoTable
    /\ df_right = NoTable
    /\ cs_out = Nothing
    /\ ReqIdle

\* Line 233: a GET is answered with the form.
Get ==
    /\ mode = "request"
    /\ pc = "idle"
    /\ request' = [NoRequest EXCEPT !.method = "GET"]
    /\ response' = "form"
    /\ pc' = "done"
    /\ UNCHANGED <<mode, tolerance, ignore_case, pureVars, sheets_input, tol_input,
                   left_book, right_book, sheets_to_compare, sheet_i, all_diffs,
                   summaries, flashes, output, compared>>

\* Lines 156-171: the form is read, the tolerance parsed, and a request
\* lacking a file is answered with the form.
Post ==
    /\ mode = "request"
    /\ pc = "idle"
    /\ \E lf \in BOOLEAN, rf \in BOOLEAN, sf \in SheetsFields,
          cf \in IgnoreCaseFields, tf \in ToleranceFields :
          LET ti == Strip(GetOr(tf, <<"0", ".", "0">>))
              pt == ParseTolerance(ti)
          IN  /\ request' = [ method |-> "POST", left |-> lf, right |-> rf,
                              sheets |-> sf, ignore_case |-> cf, tolerance |-> tf ]
              /\ sheets_input' = Strip(GetOr(sf, <<>>))
              /\ ignore_case' = (cf.present /\ cf.v # <<>>)
              /\ tol_input' = ti
              /\ tolerance' = pt.tolerance
              /\ IF ~lf \/ ~rf
                 THEN /\ flashes' = pt.warnings \o <<MsgFiles>>
                      /\ response' = "form"
                      /\ pc' = "done"
                 ELSE /\ flashes' = pt.warnings
                      /\ response' = response
                      /\ pc' = "read"
    /\ UNCHANGED <<mode, pureVars, left_book, right_book, sheets_to_compare, sheet_i,
                   all_diffs, summaries, output, compared>>

\* Lines 174-182: both files are read; a file that is no workbook ends the
\* request (the right file is not read when the left one fails).
ReadBooks ==
    /\ mode = "request"
    /\ pc = "read"
    /\ \E lc \in FileContents(LeftTables), rc \in FileContents(RightTables) :
          /\ left_book' = lc
          /\ right_book' = IF lc = Unreadable THEN NoBook ELSE rc
          /\ IF lc = Unreadable \/ rc = Unreadable
             THEN /\ flashes' = Append(flashes, MsgRead)
                  /\ response' = "form"
                  /\ pc' = "done"
             ELSE /\ flashes' = flashes
                  /\ response' = response
                  /\ pc' = "select"
    /\ UNCHANGED <<mode, tolerance, ignore_case, pureVars, request, sheets_input,
                   tol_input, sheets_to_compare, sheet_i, all_diffs, summaries,
                   output, compared>>

\* Lines 184-197: the sheets to compare are chosen; an explicit request
\* that names no sheet of either workbook ends the request.
ChooseSheets ==
    /\ mode = "request"
    /\ pc = "select"
    /\ LET selected == SelectSheets(sheets_input, SheetsOf(left_book), SheetsOf(right_book))
       IN  /\ sheets_to_compare' = selected
           /\ IF SelectionAborts(sheets_input, selected)
              THEN /\ flashes' = Append(flashes, MsgSheets)
                   /\ response' = "form"
                   /\ pc' = "done"
                   /\ sheet_i' = sheet_i
              ELSE /\ flashes' = flashes
                   /\ response' = response
                   /\ pc' = "loop"
                   /\ sheet_i' = 1
    /\ UNCHANGED <<mode, tolerance, ignore_case, pureVars, request, sheets_input,
                   tol_input, left_book, right_book, all_diffs, summaries,
                   output, compared>>

\* Lines 199-211: one pass of the loop over sheets_to_compare.
ProcessSheet ==
    /\ mode = "request"
    /\ pc = "loop"
    /\ sheet_i <= Len(sheets_to_compare)
    /\ LET one == ProcessOne(sheets_to_compare[sheet_i], left_book, right_book,
                             tolerance, ignore_case)
       IN  /\ all_diffs' = Extend(all_diffs, one.diffs)
           /\ summaries' = Append(summaries, one.summary)
           /\ compared' = compared \o one.compared
    /\ sheet_i' = sheet_i + 1
    /\ UNCHANGED <<mode, tolerance, ignore_case, pureVars, pc, request, sheets_input,
                   tol_input, left_book, right_book, sheets_to_compare, flashes,
                   response, output>>

\* Lines 213-231: the report is written and sent as differences.xlsx.
SendFile ==
    /\ mode = "request"
    /\ pc = "loop"
    /\ sheet_i > Len(sheets_to_compare)
    /\ output' = WriteWorkbook(all_diffs, summaries)
    /\ response' = "file"
    /\ pc' = "done"
    /\ UNCHANGED <<mode, tolerance, ignore_case, pureVars, request, sheets_input,
                   tol_input, left_book, right_book, sheets_to_compare, sheet_i,
                   all_diffs, summaries, flashes, compared>>

Next == Get \/ Post \/ ReadBooks \/ ChooseSheets \/ ProcessSheet \/ SendFile

Spec == InitRequest /\ [][Next]_vars

-----------------------------------------------------------------------------
(* Properties of upload_and_compare *)

Posted == mode = "request" /\ request.method = "POST"

BooksRead == left_book.state = "ok" /\ right_book.state = "ok"

\* The tolerance field is omitted, blank, or reads as a number >= 0
ValidTolerance(field) ==
    LET s == Strip(GetOr(field, <<>>))
    IN  s = <<>> \/ (ParseFloat(s).ok /\ NonNegative(ParseFloat(s).d))

\* C5: the tolerance handed to the comparison is a non-negative number: an
\* omitted or empty tolerance gives 0.0, an input that is no valid
\* non-negative number is reported as a warning and replaced by 0.0, and
\* the replacement does not end the request.
C5_ToleranceNonNegative ==
    Posted =>
        /\ compared # <<>> =>
              /\ NonNegative(tolerance)
              /\ (GetOr(request.tolerance, <<>>) = <<>> => tolerance = Fin(0))
              /\ (~ValidTolerance(request.tolerance)
                      => (tolerance = Fin(0) /\ \E i \in 1..Len(flashes) : flashes[i] = MsgTolerance))
        /\ ((pc = "done" /\ flashes = <<MsgTolerance>>) => response = "file")

\* The names an explicit selection asks for
RequestedNames == {Requested(sheets_input)[i] : i \in 1..Len(Requested(sheets_input))}

MissingFile == ~request.left \/ ~request.right

UnreadableFile == left_book = Unreadable \/ right_book = Unreadable

EmptySelection ==
    /\ BooksRead
    /\ sheets_input # <<>>
    /\ RequestedNames \cap (SheetsOf(left_book) \cup SheetsOf(right_book)) = {}

Flashed(msg) == \E i \in 1..Len(flashes) : flashes[i] = msg

\* C6: a request that lacks a file, or holds a file that is no workbook, or
\* explicitly selects no sheet of either workbook, ends with an error
\* message, without any sheet having been compared and without an output
\* file.
C6_AbortsBeforeComparison ==
    (Posted /\ pc = "done" /\ (MissingFile \/ UnreadableFile \/ EmptySelection))
        => /\ response = "form"
           /\ (MissingFile => Flashed(MsgFiles))
           /\ (~MissingFile /\ UnreadableFile => Flashed(MsgRead))
           /\ (EmptySelection => Flashed(MsgSheets))
           /\ compared = <<>>
           /\ all_diffs = <<>>
           /\ summaries = <<>>
           /\ output = NoOutput

\* C6 witness: an explicit selection naming no sheet of either workbook has
\* ended the request
C6_Witness ==
    /\ Posted
    /\ pc = "done"
    /\ EmptySelection
    /\ sheets_input = <<"Z">>
    /\ response = "form"

FullSummaryFields ==
    {"sheet", "left_rows", "right_rows", "left_cols", "right_cols", "diff_count"}

\* C7: a selected sheet present in both workbooks gets a full comparison
\* summary, one present only in the left workbook the note "only_in_left",
\* one present only in the right workbook the note "only_in_right"; no
\* DiffRecord belongs to a sheet present in only one workbook.
C7_PresenceSummaries ==
    (Posted /\ BooksRead) =>
        /\ \A k \in 1..Len(summaries) :
              LET s == sheets_to_compare[k]
                  inL == s \in SheetsOf(left_book)
                  inR == s \in SheetsOf(right_book)
              IN  /\ summaries[k].sheet = s
                  /\ (inL /\ inR) =>
                        /\ DOMAIN summaries[k] = FullSummaryFields
                        /\ summaries[k].left_rows = Len(left_book.sheets[s].index)
                        /\ summaries[k].right_rows = Len(right_book.sheets[s].index)
                        /\ summaries[k].left_cols = Len(left_book.sheets[s].columns)
                        /\ summaries[k].right_cols = Len(right_book.sheets[s].columns)
                  /\ (inL /\ ~inR) => summaries[k] = [sheet |-> s, note |-> "only_in_left"]
                  /\ (~inL /\ inR) => summaries[k] = [sheet |-> s, note |-> "only_in_right"]
                  /\ inL \/ inR
        /\ \A i \in 1..Len(all_diffs) :
              all_diffs[i].sheet \in SheetsOf(left_book) \cap SheetsOf(right_book)
        /\ (response = "file" => Len(summaries) = Len(sheets_to_compare))

\* C7 witness: a report over a sheet only in the left workbook, a sheet in
\* both and a sheet only in the right workbook
C7_Witness ==
    /\ Posted
    /\ response = "file"
    /\ SheetsOf(left_book) = {<<"A">>, <<"B">>}
    /\ SheetsOf(right_book) = {<<"B">>, <<"a">>}
    /\ Len(output.summary) = 3
    /\ output.summary[1] = [sheet |-> <<"A">>, note |-> "only_in_left"]
    /\ output.summary[3] = [sheet |-> <<"a">>, note |-> "only_in_right"]
    /\ all_diffs # <<>>

\* The i-th smallest member of a set of numbers
Nth(S, i) == CHOOSE x \in S : Cardinality({y \in S : y < x}) = i - 1

\* The sheets the report covers, in its order
Processed == [k \in 1..Len(summaries) |-> summaries[k].sheet]

\* C8: with an explicit list of sheet names the sheets processed are the
\* requested names present in at least one workbook, in the order
\* requested; without one they are the union of both workbooks' sheet
\* names in ascending string order.
C8_SheetSelection ==
    (Posted /\ BooksRead /\ pc \in {"loop", "done"}) =>
        LET present == SheetsOf(left_book) \cup SheetsOf(right_book)
            stc == sheets_to_compare
            req == Requested(sheets_input)
            kept == {i \in 1..Len(req) : req[i] \in present}
        IN  /\ (Strip(GetOr(request.sheets, <<>>)) # <<>>) =>
                  /\ Len(stc) = Cardinality(kept)
                  /\ \A k \in 1..Len(stc) : stc[k] = req[Nth(kept, k)]
            /\ (Strip(GetOr(request.sheets, <<>>)) = <<>>) =>
                  /\ {stc[k] : k \in 1..Len(stc)} = present
                  /\ \A k \in 1..(Len(stc) - 1) : StrLess(stc[k], stc[k + 1])
            /\ (response = "file" => Processed = stc)

\* C8 witness: the request " a , A,Z" has been answered with a report on "a"
\* then "A", the absent "Z" left out
C8_Witness ==
    /\ Posted
    /\ response = "file"
    /\ Len(Requested(sheets_input)) = 3
    /\ Processed = <<<<"a">>, <<"A">>>>

DiffCountOf(summary) ==
    IF "diff_count" \in DOMAIN summary THEN summary.diff_count ELSE 0

\* The number of records the first k summaries account for
RECURSIVE CountBefore(_, _)
CountBefore(sums, k) ==
    IF k = 0 THEN 0 ELSE CountBefore(sums, k - 1) + DiffCountOf(sums[k])

\* d comes before e within one sheet: an earlier row, or the same row and
\* an earlier column in string order
DiffBefore(d, e) ==
    \/ d.row_index < e.row_index
    \/ d.row_index = e.row_index /\ StrLess(d.column, e.column)

\* C9: in the report the DiffRecords stand sheet by sheet in the order the
\* sheets were processed, within a sheet by ascending row, within a row in
\* ascending string order of the column; the summaries hold one entry per
\* sheet processed, in that order.
C9_ReportOrder ==
    (Posted /\ response = "file") =>
        /\ Processed = sheets_to_compare
        /\ output.summary = summaries
        /\ (all_diffs # <<>> => output.differences = all_diffs)
        /\ CountBefore(summaries, Len(summaries)) = Len(all_diffs)
        /\ \A k \in 1..Len(summaries) :
              LET lo == CountBefore(summaries, k - 1) + 1
                  hi == CountBefore(summaries, k)
              IN  /\ \A i \in lo..hi : all_diffs[i].sheet = sheets_to_compare[k]
                  /\ \A i \in lo..(hi - 1) : DiffBefore(all_diffs[i], all_diffs[i + 1])

\* C9 witness: a report over "B" then "A", each with differences in two rows
\* and two columns
C9_Witness ==
    /\ Posted
    /\ response = "file"
    /\ sheets_to_compare = <<<<"B">>, <<"A">>>>
    /\ Len(all_diffs) = 8
    /\ all_diffs[1].column # all_diffs[2].column
    /\ all_diffs[2].row_index # all_diffs[3].row_index

====
